---- MODULE Spec2Model ----
(***************************************************************************)
(* Order-support channel of src/server.js (the file-backed server, lines   *)
(* 1-432): the JSON store `db` with its shared `db.data` singleton, the    *)
(* payment webhook, the account routes, the history-fetch route and the    *)
(* socket.io handshake and handlers joinOrder / message.                   *)
(*                                                                         *)
(* Node runs one handler at a time and switches handlers only at an        *)
(* `await`.  Every action below is one such uninterrupted run: from the    *)
(* completion of the awaited I/O (whose effect on the disk is part of the  *)
(* action) to the next await or the end of the handler.  db.read() awaits  *)
(* mkdir and readFile before it touches db.data, so its two awaits are one *)
(* step; db.write() awaits mkdir BEFORE JSON.stringify(this.data), then    *)
(* writeFile, then rename: three steps.                                    *)
(***************************************************************************)
EXTENDS Integers, Sequences, FiniteSets, TLC

VARIABLES
  file,      \* content of db.filePath (the persisted snapshot)
  tmp,       \* content of db.filePath + '.tmp', NoFile when absent
  fd,        \* per process: where the file its writeFile holds open is now
  dbData,    \* the object db.data currently refers to
  nextId,    \* generateId(): the ids handed out so far are 1..nextId-1
  clock,     \* new Date(): the timestamp of the last record created
  task,      \* per process: the handler in flight and its locals
  resp,      \* the response or acknowledgment sent by the step just taken
  user,      \* per client: the payload of its token (socket.user, req.user)
  conn,      \* per connection: "connecting" | "authenticated" | "closed"
  rooms,     \* socket.io adapter: order id -> set of connections in `order:<id>`
  inbox,     \* per connection: the 'message' events it received, in order
  acked,     \* the Messages acknowledged to their senders with {ok: true, msg}
  history,   \* per connection: the last {ok: true, messages} its joinOrder got,
             \* kept by JoinContinue
  admins,    \* socket.io adapter: the connections in room 'admins'
  emitted,   \* the 'order:created' events published to room 'admins', in order
  stripe,    \* TRUE when STRIPE_SECRET_KEY is set: `stripe` is not null
  webhookSecret  \* TRUE when STRIPE_WEBHOOK_SECRET is set

vars == <<file, tmp, fd, dbData, nextId, clock, task, resp, user, conn, rooms, inbox, acked,
          history, admins, emitted, stripe, webhookSecret>>

disk == <<file, tmp, fd>>
ids == <<nextId, clock>>
sockets == <<conn, rooms, admins>>
seenByClients == <<inbox, acked, history>>
env == <<user, stripe, webhookSecret>>

-----------------------------------------------------------------------------
(* Bounds of the model *)

MaxIds == 2          \* ids generateId() hands out (orders and messages together)
MaxIdsOrdering == 3  \* the same, in SpecOrdering
MaxInFlight == 2     \* handlers in flight at the same time
MaxRegistrations == 2  \* users created by POST /api/auth/register, in SpecUsers

-----------------------------------------------------------------------------
(* Values *)

Null == -1         \* JavaScript null in a numeric field
NullStr == "null"  \* JavaScript null in a string field
NoFile == <<>>     \* a path that does not exist; <<txt>> is a file holding txt
Torn == [torn |-> TRUE]  \* the content of a file opened with 'w' and not yet written

Webhooks == {"w1", "w2"}   \* concurrent deliveries to POST /webhook
Conns == {"a", "u"}        \* clients: each one socket.io connection, and its HTTP requests
Procs == Webhooks \cup Conns

(* socket.user / req.user: the payload of the verified token *)
Principals ==
  { [id |-> 1, is_admin |-> TRUE],
    [id |-> 7, is_admin |-> FALSE],
    [id |-> 9, is_admin |-> FALSE] }

Staff == [id |-> 1, is_admin |-> TRUE]

Sessions == {"cs_1", "cs_2"}

(* event.data.object of the payment processor's event for a session: the   *)
(* metadata value is a string, "" when there is none                       *)
Session(sid) ==
  IF sid = "cs_1"
    THEN [id |-> sid, user_id |-> "7", amount_total |-> 7999, currency |-> "usd",
          customer_email |-> "u7@shop.test"]
    ELSE [id |-> sid, user_id |-> "", amount_total |-> 0, currency |-> "usd",
          customer_email |-> ""]

(* the stripe-signature header of a delivery, as constructEvent judges it *)
Signatures == {"valid", "invalid", "none"}

EventTypes ==
  { "checkout.session.completed",
    "checkout.session.async_payment_succeeded",
    "payment_intent.created" }

Texts == {"", "hi"}

(* Number(s) of a metadata string *)
ToNumber(s) == CASE s = "7" -> 7 [] s = "9" -> 9 [] OTHER -> Null

-----------------------------------------------------------------------------
(* The store *)

EmptyData == [users |-> <<>>, orders |-> <<>>, messages |-> <<>>]

(* JSON.stringify(this.data): the collections, record by record *)
Stringify(d) == [users |-> d.users, orders |-> d.orders, messages |-> d.messages]

(* JSON.parse(txt) followed by the `||= []` defaults of db.read *)
Parse(txt) == [users |-> txt.users, orders |-> txt.orders, messages |-> txt.messages]

(* db.read(): db.data after the read of a store whose file holds f *)
DbRead(f) == IF f = NoFile THEN EmptyData ELSE Parse(f[1])

(* JSON.parse(txt) throws on a file that is not completely written, and    *)
(* db.read() rethrows it (lines 61-64) before it has assigned db.data      *)
ReadThrows(f) == f = <<Torn>>

Range(s) == {s[i] : i \in 1..Len(s)}

(* orders.find(o => o.id === orderId || ...): the first match, as a sequence *)
FindOrder(d, orderId) ==
  LET hit(o) == o.id = orderId
      r == SelectSeq(d.orders, hit)
  IN  IF r = <<>> THEN <<>> ELSE <<r[1]>>

(* orders.find(o => o.stripe_session_id === stripeSessionId) *)
FindBySession(d, sid) ==
  LET hit(o) == o.stripe_session_id = sid
      r == SelectSeq(d.orders, hit)
  IN  IF r = <<>> THEN <<>> ELSE <<r[1]>>

(* Array.prototype.sort with (a,b) => new Date(a.created_at) - new Date(b.created_at): *)
(* stable, ascending; built by stable insertion                            *)
RECURSIVE SortByCreatedAt(_)
SortByCreatedAt(s) ==
  IF s = <<>> THEN <<>>
  ELSE LET x == s[Len(s)]
           rest == SortByCreatedAt(SubSeq(s, 1, Len(s) - 1))
           le(m) == m.created_at <= x.created_at
           gt(m) == m.created_at > x.created_at
       IN  SelectSeq(rest, le) \o <<x>> \o SelectSeq(rest, gt)

(* messages.filter(m => m.order_id === orderId).sort(...) *)
History(d, orderId) ==
  LET mine(m) == m.order_id = orderId
  IN  SortByCreatedAt(SelectSeq(d.messages, mine))

-----------------------------------------------------------------------------
(* Processes *)

(* an order id generateId() never hands out *)
NoSuchOrder == MaxIds + MaxIdsOrdering + 1

Idle == [pc |-> "idle", kind |-> "none", oid |-> NoSuchOrder, text |-> "", sid |-> "",
         from |-> Null, role |-> "", type |-> "", sig |-> "", email |-> "",
         makeAdmin |-> FALSE, str |-> EmptyData,
         obj |-> <<>>, seen |-> {}]

InFlight == {p \in Procs : task[p].pc # "idle"}

CanStart(p) == task[p].pc = "idle" /\ Cardinality(InFlight) < MaxInFlight

None == [kind |-> "none", to |-> "none", op |-> "none"]

(* a connection that no joinOrder has answered {ok: true, messages} yet *)
NoHistory == [order_id |-> NoSuchOrder, messages |-> <<>>]

NewOrder(session, id, t) ==
  [ id |-> id,
    stripe_session_id |-> session.id,
    user_id |-> IF session.user_id # "" THEN ToNumber(session.user_id) ELSE Null,
    user_email |-> IF session.customer_email # "" THEN session.customer_email ELSE NullStr,
    amount_total |-> IF session.amount_total # 0 THEN session.amount_total ELSE Null,
    currency |-> IF session.currency # "" THEN session.currency ELSE NullStr,
    status |-> "paid",
    created_at |-> t ]

PriorOrder == NewOrder(Session("cs_1"), 0, 0)
PriorData == [users |-> <<>>, orders |-> <<PriorOrder>>, messages |-> <<>>]

(* The server is up: bootstrap, lines 121-133, has read the store and     *)
(* written it back.  The store is fresh, or holds one paid order of an     *)
(* earlier run.                                                            *)
Booted ==
  /\ file \in {<<Stringify(EmptyData)>>, <<Stringify(PriorData)>>}
  /\ tmp = NoFile
  /\ fd = [p \in Procs |-> "none"]
  /\ dbData = DbRead(file)
  /\ nextId = 1
  /\ clock = 0
  /\ task = [p \in Procs |-> Idle]
  /\ resp = None
  /\ rooms = [o \in 0..(MaxIds + MaxIdsOrdering) |-> {}]
  /\ inbox = [c \in Conns |-> <<>>]
  /\ acked = {}
  /\ history = [c \in Conns |-> NoHistory]
  /\ emitted = <<>>

(* the tokens the two clients hold: one of staff, one of a customer *)
Tokens ==
  {[c \in Conns |-> IF c = "a" THEN Staff ELSE u] : u \in {q \in Principals : ~q.is_admin}}

(* both clients have completed the handshake of lines 377-391 *)
Started ==
  /\ Booted
  /\ user \in Tokens
  /\ conn = [c \in Conns |-> "authenticated"]
  /\ admins = {"a"}

(* no client has connected yet; both Stripe keys are set *)
InitConnecting ==
  /\ Booted
  /\ user \in Tokens
  /\ conn = [c \in Conns |-> "connecting"]
  /\ admins = {}
  /\ stripe = TRUE /\ webhookSecret = TRUE

(* both STRIPE_SECRET_KEY and STRIPE_WEBHOOK_SECRET are set (lines 16-23) *)
Init == Started /\ stripe = TRUE /\ webhookSecret = TRUE

(* any of the configurations lines 16-23 allow *)
InitAnyConfig == Started /\ stripe \in BOOLEAN /\ webhookSecret \in BOOLEAN

(* ids still free for the handlers that have not yet reached their generateId() *)
NeedsId(p) == task[p].pc = "read" /\ task[p].kind \in {"webhook", "message"}

CanCreate(maxIds) == nextId + Cardinality({p \in Procs : NeedsId(p)}) <= maxIds

(* new Date(): every record is created a tick after the one before *)
Now == clock + 1

(* the handler of p ends and sends r *)
Finish(p, r) ==
  /\ task' = [task EXCEPT ![p] = Idle]
  /\ resp' = [x \in DOMAIN r \cup {"to", "op"} |->
                IF x = "to" THEN p ELSE IF x = "op" THEN task[p].kind ELSE r[x]]

Silent == resp' = None

Begin(p, t) ==
  /\ task' = [task EXCEPT ![p] = t]
  /\ Silent
  /\ UNCHANGED <<disk, dbData, ids, env, sockets, seenByClients, emitted>>

-----------------------------------------------------------------------------
(* db.write(), lines 110-117, for the handler of process p *)

(* after `await this._ensureDir()`: dataStr = JSON.stringify(this.data), of *)
(* whatever db.data refers to by now; writeFile(tmp) is issued              *)
DbWriteStringify(p) ==
  /\ task[p].pc = "write_mkdir"
  /\ task' = [task EXCEPT ![p].pc = "write_tmp", ![p].str = Stringify(dbData)]
  /\ Silent
  /\ UNCHANGED <<disk, dbData, ids, env, sockets, seenByClients, emitted>>

(* writeFile(tmp, dataStr) completes; rename(tmp, filePath) is issued *)
DbWriteTmp(p) ==
  /\ task[p].pc = "write_tmp"
  /\ tmp' = <<task[p].str>>
  /\ task' = [task EXCEPT ![p].pc = "rename"]
  /\ Silent
  /\ UNCHANGED <<file, fd, dbData, ids, env, sockets, seenByClients, emitted>>

(* rename(tmp, filePath): replaces the file, or fails with ENOENT when the *)
(* side file is no longer there                                            *)
RenameOk == tmp # NoFile

(* the file a descriptor refers to, after tmp has been renamed onto filePath *)
Moved(where) ==
  CASE where = "tmp" -> "file" [] where = "file" -> "unlinked" [] OTHER -> where

Renamed ==
  IF RenameOk
    THEN file' = tmp /\ tmp' = NoFile /\ fd' = [p \in Procs |-> Moved(fd[p])]
    ELSE UNCHANGED disk

-----------------------------------------------------------------------------
(* POST /webhook, lines 140-183 *)

(* an event filter that lets every event kind create an order *)
Creates_EveryEvent(type) == type \in EventTypes

Creates(type) ==
  type = "checkout.session.completed" \/ type = "checkout.session.async_payment_succeeded"

(* a verification that takes a delivery without signature header as it is *)
Verified_HeaderOptional(sig) == IF webhookSecret THEN sig # "invalid" ELSE TRUE

(* lines 144-153: with a secret, stripe.webhooks.constructEvent throws      *)
(* unless the signature is the payload's; without, the body is parsed as is *)
Verified(sig) == IF webhookSecret THEN sig = "valid" ELSE TRUE

(* what the handler of delivery w answers; the delivery it answers is part  *)
(* of the exchange                                                          *)
Reply(w, type, sig, r) ==
  [x \in DOMAIN r \cup {"to", "op", "event", "sig"} |->
     CASE x = "to" -> w [] x = "op" -> "webhook" [] x = "event" -> type
       [] x = "sig" -> sig [] OTHER -> r[x]]

WebhookStart(w, sid, type, sig) ==
  /\ CanStart(w)
  /\ IF ~stripe
       THEN /\ resp' = Reply(w, type, sig, [kind |-> "rejected", status |-> 400,
                                             error |-> "Stripe not configured"])
            /\ UNCHANGED task
     ELSE IF ~Verified(sig)
       THEN /\ resp' = Reply(w, type, sig, [kind |-> "rejected", status |-> 400,
                                             error |-> "Webhook Error"])
            /\ UNCHANGED task
     ELSE IF Creates(type)
       THEN /\ CanCreate(MaxIds)
            /\ task' = [task EXCEPT ![w] = [Idle EXCEPT !.pc = "read", !.kind = "webhook",
                                                          !.sid = sid, !.type = type,
                                                          !.sig = sig]]
            /\ Silent
       ELSE /\ resp' = Reply(w, type, sig, [kind |-> "received"])
            /\ UNCHANGED task
  /\ UNCHANGED <<disk, dbData, ids, env, sockets, seenByClients, emitted>>

(* the handler of w ends and answers r, or ends without an answer *)
WebhookFinish(w, r) ==
  /\ task' = [task EXCEPT ![w] = Idle]
  /\ resp' = Reply(w, task[w].type, task[w].sig, r)

(* `await db.read()` returns: the idempotency check and, if absent, the    *)
(* push; or it throws, and the handler has no try/catch                    *)
WebhookRead(w) ==
  /\ task[w].pc = "read" /\ task[w].kind = "webhook"
  /\ IF ReadThrows(file)
       THEN /\ WebhookFinish(w, [kind |-> "unhandled"])
            /\ UNCHANGED <<dbData, ids>>
       ELSE LET d == DbRead(file)
                exists == FindBySession(d, task[w].sid)
            IN  IF exists # <<>>
                  THEN /\ dbData' = d
                       /\ WebhookFinish(w, [kind |-> "received"])
                       /\ UNCHANGED ids
                  ELSE LET newOrder == NewOrder(Session(task[w].sid), nextId, Now)
                       IN  /\ dbData' = [d EXCEPT !.orders = Append(@, newOrder)]
                           /\ nextId' = nextId + 1
                           /\ clock' = Now
                           /\ task' = [task EXCEPT ![w].pc = "write_mkdir",
                                                   ![w].obj = <<newOrder>>]
                           /\ Silent
  /\ UNCHANGED <<disk, env, sockets, seenByClients, emitted>>

(* `await db.write()` returns or throws: notify the admins, acknowledge.   *)
(* The handler has no try/catch around the store: a rejected rename is an  *)
(* unhandled rejection and no response is sent                             *)
WebhookWritten(w) ==
  /\ task[w].pc = "rename" /\ task[w].kind = "webhook"
  /\ Renamed
  /\ IF RenameOk
       THEN /\ emitted' = Append(emitted, [order |-> task[w].obj[1], to |-> admins])
            /\ WebhookFinish(w, [kind |-> "received"])
       ELSE /\ WebhookFinish(w, [kind |-> "unhandled"])
            /\ UNCHANGED emitted
  /\ UNCHANGED <<dbData, ids, env, sockets, seenByClients>>

-----------------------------------------------------------------------------
(* socket.io handlers, lines 389-425 *)

(* a guard that takes an order without owner to be open to everyone *)
Denied_OwnerlessOpen(order, principal) ==
  order.user_id # Null /\ order.user_id # principal.id /\ ~principal.is_admin

(* the guard of joinOrder and message:                                     *)
(* order.user_id !== user.id && !user.is_admin  ->  'Not authorized'       *)
Denied(order, principal) == order.user_id # principal.id /\ ~principal.is_admin

(* socket.on('joinOrder'), lines 393-404 *)
JoinStart(c, orderId) ==
  /\ conn[c] = "authenticated"
  /\ CanStart(c)
  /\ Begin(c, [Idle EXCEPT !.pc = "read", !.kind = "join", !.oid = orderId,
                           !.seen = acked])

JoinResult(d, principal, orderId) ==
  LET order == FindOrder(d, orderId)
  IN  IF order = <<>> THEN [kind |-> "error", error |-> "Order not found"]
      ELSE IF Denied(order[1], principal)
        THEN [kind |-> "error", error |-> "Not authorized"]
      ELSE [kind |-> "ok", messages |-> History(d, orderId)]

(* a handler that puts the socket into the room before it looks at the     *)
(* outcome of the guard                                                    *)
Joined_BeforeGuard(c, orderId, r) == [rooms EXCEPT ![orderId] = @ \cup {c}]

(* lines 397-400: socket.join(room) is reached only past the two returns   *)
Joined(c, orderId, r) ==
  IF r.kind = "ok" THEN [rooms EXCEPT ![orderId] = @ \cup {c}] ELSE rooms

(* the handler of joinOrder from the return of `await db.read()`, which    *)
(* found the file to hold f, to its end.  socket.join(room) puts the       *)
(* socket's id into the adapter's room whether or not the socket is still  *)
(* connected; a throw of db.read() is caught (line 403)                    *)
JoinAfterRead(c, f) ==
  /\ IF ReadThrows(f)
       THEN /\ Finish(c, [kind |-> "error", error |-> "Server error"])
            /\ UNCHANGED <<dbData, rooms>>
       ELSE LET d == DbRead(f)
                r == JoinResult(d, user[c], task[c].oid)
            IN  /\ dbData' = d
                /\ rooms' = Joined(c, task[c].oid, r)
                /\ Finish(c, r)
  /\ UNCHANGED <<disk, ids, env, conn, admins, inbox, acked, emitted>>

JoinRead(c) ==
  /\ task[c].pc = "read" /\ task[c].kind = "join"
  /\ JoinAfterRead(c, file)
  /\ UNCHANGED history

(* socket.on('message'), lines 406-424 *)
MessageStartK(c, orderId, text, maxIds) ==
  /\ conn[c] = "authenticated"
  /\ CanStart(c)
  /\ CanCreate(maxIds)
  /\ Begin(c, [Idle EXCEPT !.pc = "read", !.kind = "message", !.oid = orderId,
                           !.text = text])

MessageStart(c, orderId, text) == MessageStartK(c, orderId, text, MaxIds)

(* a payload that also carries sender_id and sender_role *)
MessageStartAs(c, orderId, text, senderId, senderRole) ==
  /\ conn[c] = "authenticated"
  /\ CanStart(c)
  /\ CanCreate(MaxIds)
  /\ Begin(c, [Idle EXCEPT !.pc = "read", !.kind = "message", !.oid = orderId,
                           !.text = text, !.from = senderId, !.role = senderRole])

(* the payload of the message event c's handler is running for; Null and   *)
(* "" stand for a field the client did not send                            *)
Payload(c) ==
  [orderId |-> task[c].oid, text |-> task[c].text,
   sender_id |-> task[c].from, sender_role |-> task[c].role]

(* a handler that lets the payload name the sender *)
NewMessage_TrustsPayload(id, payload, principal, t) ==
  [ id |-> id,
    order_id |-> payload.orderId,
    sender_id |-> IF payload.sender_id # Null THEN payload.sender_id ELSE principal.id,
    sender_role |-> IF payload.sender_role # "" THEN payload.sender_role
                    ELSE IF principal.is_admin THEN "admin" ELSE "user",
    text |-> payload.text,
    created_at |-> t ]

(* lines 408, 413-414: of the payload, orderId and text only *)
NewMessage(id, payload, principal, t) ==
  [ id |-> id,
    order_id |-> payload.orderId,
    sender_id |-> principal.id,
    sender_role |-> IF principal.is_admin THEN "admin" ELSE "user",
    text |-> payload.text,
    created_at |-> t ]

MessageRead(c) ==
  /\ task[c].pc = "read" /\ task[c].kind = "message"
  /\ LET d == DbRead(file)
         order == FindOrder(d, task[c].oid)
     IN  IF ReadThrows(file)
           THEN /\ Finish(c, [kind |-> "error", error |-> "Server error"])
                /\ UNCHANGED <<dbData, ids>>
         ELSE IF order = <<>>
           THEN /\ dbData' = d
                /\ Finish(c, [kind |-> "error", error |-> "Order not found"])
                /\ UNCHANGED ids
         ELSE IF Denied(order[1], user[c])
           THEN /\ dbData' = d
                /\ Finish(c, [kind |-> "error", error |-> "Not authorized"])
                /\ UNCHANGED ids
         ELSE LET msg == NewMessage(nextId, Payload(c), user[c], Now)
              IN  /\ dbData' = [d EXCEPT !.messages = Append(@, msg)]
                  /\ nextId' = nextId + 1
                  /\ clock' = Now
                  /\ task' = [task EXCEPT ![c].pc = "write_mkdir", ![c].obj = <<msg>>]
                  /\ Silent
  /\ UNCHANGED <<disk, env, sockets, seenByClients, emitted>>

(* io.emit('message', msg): every live socket, whatever its rooms *)
Recipients_Everyone(orderId) == {r \in Conns : conn[r] = "authenticated"}

(* io.to(room).emit('message', msg): every live socket of the room *)
Recipients(orderId) == {r \in rooms[orderId] : conn[r] = "authenticated"}

(* the handler of message from the return of `await db.write()` to its    *)
(* end: emit to the room and acknowledge, or the catch of line 420         *)
MessageAfterWrite(c, written) ==
  /\ IF written
       THEN LET msg == task[c].obj[1]
            IN  /\ inbox' = [r \in Conns |->
                               IF r \in Recipients(task[c].oid)
                                 THEN Append(inbox[r], msg) ELSE inbox[r]]
                /\ acked' = acked \cup {msg}
                /\ Finish(c, [kind |-> "ok", msg |-> msg])
                /\ UNCHANGED history
       ELSE /\ Finish(c, [kind |-> "error", error |-> "Server error"])
            /\ UNCHANGED seenByClients
  /\ UNCHANGED <<dbData, ids, env, sockets, emitted>>

MessageWritten(c) ==
  /\ task[c].pc = "rename" /\ task[c].kind = "message"
  /\ Renamed
  /\ MessageAfterWrite(c, RenameOk)

-----------------------------------------------------------------------------
(* The same handlers, with the completion of the file operation in the     *)
(* thread pool and the continuation of the handler on the event loop as    *)
(* two steps: other callbacks can run in between                           *)

(* readFile has read the file; db.read() has not resumed yet *)
JoinReadFile(c) ==
  /\ task[c].pc = "read" /\ task[c].kind = "join"
  /\ task' = [task EXCEPT ![c].pc = "read_done", ![c].obj = file]
  /\ Silent
  /\ UNCHANGED <<disk, dbData, ids, env, sockets, seenByClients, emitted>>

(* the acknowledgment is kept where it is compared with the live events *)
JoinContinue(c) ==
  /\ task[c].pc = "read_done" /\ task[c].kind = "join"
  /\ JoinAfterRead(c, task[c].obj)
  /\ history' = IF resp'.kind = "ok" /\ conn[c] = "authenticated"
                  THEN [history EXCEPT ![c] = [order_id |-> task[c].oid,
                                               messages |-> resp'.messages]]
                  ELSE history

(* rename has replaced the file, or failed; db.write() has not resumed yet *)
MessageRenameDone(c) ==
  /\ task[c].pc = "rename" /\ task[c].kind = "message"
  /\ Renamed
  /\ task' = [task EXCEPT ![c].pc = IF RenameOk THEN "renamed" ELSE "rename_failed"]
  /\ Silent
  /\ UNCHANGED <<dbData, ids, env, sockets, seenByClients, emitted>>

MessageContinue(c) ==
  /\ task[c].pc \in {"renamed", "rename_failed"} /\ task[c].kind = "message"
  /\ MessageAfterWrite(c, task[c].pc = "renamed")
  /\ UNCHANGED disk

(* writeFile(tmp, dataStr) has opened the side file with flag 'w': the     *)
(* file at that path, if any, is truncated, else created                   *)
DbWriteOpen(p) ==
  /\ task[p].pc = "write_tmp"
  /\ tmp' = <<Torn>>
  /\ fd' = [fd EXCEPT ![p] = "tmp"]
  /\ task' = [task EXCEPT ![p].pc = "write_data"]
  /\ Silent
  /\ UNCHANGED <<file, dbData, ids, env, sockets, seenByClients, emitted>>

(* writeFile has written dataStr through its descriptor and closed it;     *)
(* rename(tmp, filePath) is issued                                         *)
DbWriteData(p) ==
  /\ task[p].pc = "write_data"
  /\ tmp' = IF fd[p] = "tmp" THEN <<task[p].str>> ELSE tmp
  /\ file' = IF fd[p] = "file" THEN <<task[p].str>> ELSE file
  /\ fd' = [fd EXCEPT ![p] = "none"]
  /\ task' = [task EXCEPT ![p].pc = "rename"]
  /\ Silent
  /\ UNCHANGED <<dbData, ids, env, sockets, seenByClients, emitted>>

-----------------------------------------------------------------------------
(* a handshake that puts every socket into room 'admins' *)
AdminsWith_Everyone(c) == admins \cup {c}

(* line 391: if (user.is_admin) socket.join('admins') *)
AdminsWith(c) == IF user[c].is_admin THEN admins \cup {c} ELSE admins

(* The handshake of connection c, lines 377-391: without a token that      *)
(* jwt.verify accepts the connection is refused; with one, socket.user is  *)
(* its payload and the connection handler runs                             *)
Connect(c, tokenOk) ==
  /\ conn[c] = "connecting"
  /\ IF tokenOk
       THEN conn' = [conn EXCEPT ![c] = "authenticated"] /\ admins' = AdminsWith(c)
       ELSE conn' = [conn EXCEPT ![c] = "closed"] /\ UNCHANGED admins
  /\ Silent
  /\ UNCHANGED <<disk, dbData, ids, task, env, rooms, seenByClients, emitted>>

(* The transport of connection c closes: socket.io takes the socket out of *)
(* every room.  Handlers of c that are suspended at an await go on.        *)
Disconnect(c) ==
  /\ conn[c] # "closed"
  /\ conn' = [conn EXCEPT ![c] = "closed"]
  /\ rooms' = [o \in DOMAIN rooms |-> rooms[o] \ {c}]
  /\ admins' = admins \ {c}
  /\ Silent
  /\ UNCHANGED <<disk, dbData, ids, task, env, seenByClients, emitted>>

-----------------------------------------------------------------------------
(* GET /api/orders/:id/messages, lines 354-362; `authenticate` has put the *)
(* payload of the client's token in req.user                               *)

HttpStart(c, orderId) ==
  /\ CanStart(c)
  /\ Begin(c, [Idle EXCEPT !.pc = "read", !.kind = "http", !.oid = orderId])

(* a route that serves the owner only, without the admin bypass *)
HttpResult_OwnerOnly(d, principal, orderId) ==
  LET order == FindOrder(d, orderId)
  IN  IF order = <<>> THEN [kind |-> "error", error |-> "Order not found"]
      ELSE IF order[1].user_id # principal.id
        THEN [kind |-> "error", error |-> "Not authorized"]
      ELSE [kind |-> "ok", messages |-> History(d, orderId)]

HttpResult(d, principal, orderId) ==
  LET order == FindOrder(d, orderId)
  IN  IF order = <<>> THEN [kind |-> "error", error |-> "Order not found"]
      ELSE IF order[1].user_id # principal.id /\ ~principal.is_admin
        THEN [kind |-> "error", error |-> "Not authorized"]
      ELSE [kind |-> "ok", messages |-> History(d, orderId)]

HttpRead(c) ==
  /\ task[c].pc = "read" /\ task[c].kind = "http"
  /\ IF ReadThrows(file)
       THEN Finish(c, [kind |-> "unhandled"]) /\ UNCHANGED dbData
       ELSE /\ dbData' = DbRead(file)
            /\ Finish(c, HttpResult(DbRead(file), user[c], task[c].oid))
  /\ UNCHANGED <<disk, ids, env, sockets, seenByClients, emitted>>

-----------------------------------------------------------------------------
-----------------------------------------------------------------------------
(* The accounts: POST /api/auth/register (lines 216-228), POST             *)
(* /api/auth/login (231-241) and POST /api/make-admin (290-299).  Client c *)
(* keeps the token of the last response that carried one; user[c] is its   *)
(* payload                                                                 *)

Emails == {"x@shop.test", "y@shop.test"}

(* a client without a token *)
NoToken == [id |-> Null, is_admin |-> FALSE]

(* signToken, lines 194-197: the payload of the token for a stored user *)
SignToken(row) == [id |-> row.id, is_admin |-> row.is_admin # 0]

FindUser(d, email) ==
  LET hits == {i \in 1..Len(d.users) : d.users[i].email = email}
  IN  IF hits = {} THEN 0 ELSE CHOOSE i \in hits : \A j \in hits : i <= j

(* the handler of p ends and answers r to client c, who keeps the token *)
FinishWithToken(c, r, token) ==
  /\ Finish(c, r)
  /\ user' = [user EXCEPT ![c] = token]
  /\ UNCHANGED <<stripe, webhookSecret>>

Registering == {p \in Procs : task[p].kind = "register"}

RegisterStart(c, email, makeAdmin) ==
  /\ CanStart(c)
  /\ clock + Cardinality(Registering) < MaxRegistrations
  /\ Begin(c, [Idle EXCEPT !.pc = "read", !.kind = "register", !.email = email,
                           !.makeAdmin = makeAdmin])

(* `await db.read()` returns: the email is taken, or bcrypt.hash is awaited *)
RegisterRead(c) ==
  /\ task[c].pc = "read" /\ task[c].kind = "register"
  /\ IF ReadThrows(file)
       THEN Finish(c, [kind |-> "unhandled"]) /\ UNCHANGED dbData
     ELSE IF FindUser(DbRead(file), task[c].email) # 0
       THEN /\ dbData' = DbRead(file)
            /\ Finish(c, [kind |-> "rejected", status |-> 400,
                          error |-> "Email already in use"])
       ELSE /\ dbData' = DbRead(file)
            /\ task' = [task EXCEPT ![c].pc = "hash"]
            /\ Silent
  /\ UNCHANGED <<disk, ids, env, sockets, seenByClients, emitted>>

(* line 223: id is Date.now(), is_admin is what the body's makeAdmin says *)
NewUser(email, makeAdmin, t) ==
  [id |-> t, email |-> email, is_admin |-> IF makeAdmin THEN 1 ELSE 0, created_at |-> t]

(* bcrypt.hash returns: the user is pushed into whatever db.data is by now *)
RegisterHashed(c) ==
  /\ task[c].pc = "hash" /\ task[c].kind = "register"
  /\ LET newUser == NewUser(task[c].email, task[c].makeAdmin, Now)
     IN  /\ dbData' = [dbData EXCEPT !.users = Append(@, newUser)]
         /\ clock' = Now
         /\ task' = [task EXCEPT ![c].pc = "write_mkdir", ![c].obj = <<newUser>>]
  /\ Silent
  /\ UNCHANGED <<disk, nextId, env, sockets, seenByClients, emitted>>

(* `await db.write()` returns: the token of the new user is sent; a        *)
(* rejected write is not caught                                            *)
RegisterWritten(c) ==
  /\ task[c].pc = "rename" /\ task[c].kind = "register"
  /\ Renamed
  /\ IF RenameOk
       THEN FinishWithToken(c, [kind |-> "ok", token |-> SignToken(task[c].obj[1])],
                            SignToken(task[c].obj[1]))
       ELSE Finish(c, [kind |-> "unhandled"]) /\ UNCHANGED env
  /\ UNCHANGED <<dbData, ids, sockets, seenByClients, emitted>>

LoginStart(c, email) ==
  /\ CanStart(c)
  /\ Begin(c, [Idle EXCEPT !.pc = "read", !.kind = "login", !.email = email])

(* `await db.read()` returns: no such user, or bcrypt.compare is awaited *)
LoginRead(c) ==
  /\ task[c].pc = "read" /\ task[c].kind = "login"
  /\ IF ReadThrows(file)
       THEN Finish(c, [kind |-> "unhandled"]) /\ UNCHANGED dbData
       ELSE LET d == DbRead(file)
                i == FindUser(d, task[c].email)
            IN  /\ dbData' = d
                /\ IF i = 0
                     THEN Finish(c, [kind |-> "rejected", status |-> 400,
                                     error |-> "Invalid credentials"])
                     ELSE /\ task' = [task EXCEPT ![c].pc = "compare",
                                                  ![c].obj = <<d.users[i]>>]
                          /\ Silent
  /\ UNCHANGED <<disk, ids, env, sockets, seenByClients, emitted>>

(* bcrypt.compare returns ok: the password was, or was not, the user's *)
LoginCompared(c, ok) ==
  /\ task[c].pc = "compare" /\ task[c].kind = "login"
  /\ IF ok
       THEN FinishWithToken(c, [kind |-> "ok", token |-> SignToken(task[c].obj[1])],
                            SignToken(task[c].obj[1]))
       ELSE /\ Finish(c, [kind |-> "rejected", status |-> 400,
                          error |-> "Invalid credentials"])
            /\ UNCHANGED env
  /\ UNCHANGED <<disk, dbData, ids, sockets, seenByClients, emitted>>

(* `authenticate` and the guard of line 292 *)
MakeAdminStart(c, email) ==
  /\ CanStart(c)
  /\ IF user[c] = NoToken
       THEN /\ resp' = [kind |-> "rejected", status |-> 401, error |-> "Missing auth",
                        to |-> c, op |-> "makeadmin"]
            /\ UNCHANGED task
     ELSE IF ~user[c].is_admin
       THEN /\ resp' = [kind |-> "rejected", status |-> 403, error |-> "Only admins",
                        to |-> c, op |-> "makeadmin"]
            /\ UNCHANGED task
       ELSE /\ task' = [task EXCEPT ![c] = [Idle EXCEPT !.pc = "read", !.kind = "makeadmin",
                                                         !.email = email]]
            /\ Silent
  /\ UNCHANGED <<disk, dbData, ids, env, sockets, seenByClients, emitted>>

(* `await db.read()` returns: user.is_admin = 1 on the record in db.data *)
MakeAdminRead(c) ==
  /\ task[c].pc = "read" /\ task[c].kind = "makeadmin"
  /\ IF ReadThrows(file)
       THEN Finish(c, [kind |-> "unhandled"]) /\ UNCHANGED dbData
       ELSE LET d == DbRead(file)
                i == FindUser(d, task[c].email)
            IN  IF i = 0
                  THEN /\ dbData' = d
                       /\ Finish(c, [kind |-> "rejected", status |-> 404,
                                     error |-> "User not found"])
                  ELSE /\ dbData' = [d EXCEPT !.users[i].is_admin = 1]
                       /\ task' = [task EXCEPT ![c].pc = "write_mkdir"]
                       /\ Silent
  /\ UNCHANGED <<disk, ids, env, sockets, seenByClients, emitted>>

MakeAdminWritten(c) ==
  /\ task[c].pc = "rename" /\ task[c].kind = "makeadmin"
  /\ Renamed
  /\ Finish(c, IF RenameOk THEN [kind |-> "ok"] ELSE [kind |-> "unhandled"])
  /\ UNCHANGED <<dbData, ids, env, sockets, seenByClients, emitted>>

(* the order ids a client can name: those of the persisted orders, and one *)
(* that names no order                                                     *)
OrderIds ==
  {NoSuchOrder} \cup
    (IF ReadThrows(file) THEN {} ELSE {o.id : o \in Range(DbRead(file).orders)})

Next ==
  \/ \E sid \in Sessions, type \in EventTypes : WebhookStart("w1", sid, type, "valid")
  \/ WebhookRead("w1")
  \/ WebhookWritten("w1")
  \/ \E p \in Procs : DbWriteStringify(p)
  \/ \E p \in Procs : DbWriteTmp(p)
  \/ \E c \in Conns, o \in OrderIds : JoinStart(c, o)
  \/ \E c \in Conns : JoinRead(c)
  \/ \E c \in Conns, o \in OrderIds, text \in Texts : MessageStart(c, o, text)
  \/ \E c \in Conns : MessageRead(c)
  \/ \E c \in Conns : MessageWritten(c)
  \/ \E c \in Conns, o \in OrderIds : HttpStart(c, o)
  \/ \E c \in Conns : HttpRead(c)

Spec == Init /\ [][Next]_vars

(* Two deliveries to POST /webhook in flight at the same time *)
NextDeliveries ==
  \/ \E w \in Webhooks, sid \in Sessions, type \in EventTypes :
       WebhookStart(w, sid, type, "valid")
  \/ \E w \in Webhooks : WebhookRead(w)
  \/ \E w \in Webhooks : DbWriteStringify(w)
  \/ \E w \in Webhooks : DbWriteTmp(w)
  \/ \E w \in Webhooks : WebhookWritten(w)

SpecDeliveries == Init /\ [][NextDeliveries]_vars

(* The chat of one order: joins and up to MaxIdsOrdering sends *)
NextOrdering ==
  \/ \E c \in Conns, o \in OrderIds : JoinStart(c, o)
  \/ \E c \in Conns : JoinRead(c)
  \/ \E c \in Conns, o \in OrderIds : MessageStartK(c, o, "hi", MaxIdsOrdering)
  \/ \E c \in Conns : MessageRead(c)
  \/ \E c \in Conns : DbWriteStringify(c)
  \/ \E c \in Conns : DbWriteTmp(c)
  \/ \E c \in Conns : MessageWritten(c)

SpecOrdering == Init /\ [][NextOrdering]_vars

(* Deliveries to POST /webhook one after the other, and nothing else *)
NextRedelivery ==
  \/ \E w \in Webhooks, sid \in Sessions, type \in EventTypes :
       InFlight = {} /\ WebhookStart(w, sid, type, "valid")
  \/ \E w \in Webhooks : WebhookRead(w)
  \/ \E w \in Webhooks : DbWriteStringify(w)
  \/ \E w \in Webhooks : DbWriteTmp(w)
  \/ \E w \in Webhooks : WebhookWritten(w)

SpecRedelivery == Init /\ [][NextRedelivery]_vars

(* Sends only: whatever is lost is lost between two sends *)
NextSends ==
  \/ \E c \in Conns, o \in OrderIds, text \in Texts : MessageStart(c, o, text)
  \/ \E c \in Conns : MessageRead(c)
  \/ \E c \in Conns : DbWriteStringify(c)
  \/ \E c \in Conns : DbWriteTmp(c)
  \/ \E c \in Conns : MessageWritten(c)

SpecSends == Init /\ [][NextSends]_vars

(* Sends and joins, with writeFile in its two steps *)
NextPublish ==
  \/ \E c \in Conns, o \in OrderIds : JoinStart(c, o)
  \/ \E c \in Conns : JoinRead(c)
  \/ \E c \in Conns, o \in OrderIds : MessageStart(c, o, "hi")
  \/ \E c \in Conns : MessageRead(c)
  \/ \E c \in Conns : DbWriteStringify(c)
  \/ \E c \in Conns : DbWriteOpen(c)
  \/ \E c \in Conns : DbWriteData(c)
  \/ \E c \in Conns : MessageWritten(c)

SpecPublish == Init /\ [][NextPublish]_vars

(* Deliveries to POST /webhook with any signature header, under any         *)
(* configuration                                                            *)
NextWebhook ==
  \/ \E w \in Webhooks, sid \in Sessions, type \in EventTypes, sig \in Signatures :
       WebhookStart(w, sid, type, sig)
  \/ \E w \in Webhooks : WebhookRead(w)
  \/ \E w \in Webhooks : DbWriteStringify(w)
  \/ \E w \in Webhooks : DbWriteTmp(w)
  \/ \E w \in Webhooks : WebhookWritten(w)

SpecWebhook == InitAnyConfig /\ [][NextWebhook]_vars

(* One joinOrder per connection next to the sends of an order, with the    *)
(* file operations and the continuations of the handlers as separate steps *)
NextJoin ==
  \/ \E c \in Conns, o \in OrderIds : history[c] = NoHistory /\ JoinStart(c, o)
  \/ \E c \in Conns : JoinReadFile(c)
  \/ \E c \in Conns : JoinContinue(c)
  \/ \E c \in Conns, o \in OrderIds : MessageStartK(c, o, "hi", MaxIdsOrdering)
  \/ \E c \in Conns : MessageRead(c)
  \/ \E c \in Conns : DbWriteStringify(c)
  \/ \E c \in Conns : DbWriteTmp(c)
  \/ \E c \in Conns : MessageRenameDone(c)
  \/ \E c \in Conns : MessageContinue(c)

SpecJoin == Init /\ [][NextJoin]_vars

(* Connections that join and close while orders are being created.  The    *)
(* writes are those of one delivery at a time, so every read of the store  *)
(* finds a complete snapshot (the torn ones are the subject of C11)        *)
NextLifecycle ==
  \/ \E sid \in Sessions :
       InFlight = {} /\ WebhookStart("w1", sid, "checkout.session.completed", "valid")
  \/ WebhookRead("w1")
  \/ DbWriteStringify("w1")
  \/ DbWriteTmp("w1")
  \/ WebhookWritten("w1")
  \/ \E c \in Conns, o \in OrderIds : JoinStart(c, o)
  \/ \E c \in Conns : JoinRead(c)
  \/ \E c \in Conns : Disconnect(c)

SpecLifecycle == Init /\ [][NextLifecycle]_vars

(* Sends whose payload names a sender of its own.  Each connection sends   *)
(* its own name as text, so that a persisted message tells which           *)
(* connection sent it                                                      *)
NextIdentity ==
  \/ \E c \in Conns, o \in OrderIds, senderId \in {Null} \cup {q.id : q \in Principals},
          senderRole \in {"", "admin", "user"} :
       MessageStartAs(c, o, c, senderId, senderRole)
  \/ \E c \in Conns : MessageRead(c)
  \/ \E c \in Conns : DbWriteStringify(c)
  \/ \E c \in Conns : DbWriteTmp(c)
  \/ \E c \in Conns : MessageWritten(c)

SpecIdentity == Init /\ [][NextIdentity]_vars

(* Clients that connect, join, send and close while orders are delivered   *)
(* one at a time                                                           *)
NextChannel ==
  \/ \E c \in Conns, tokenOk \in BOOLEAN : Connect(c, tokenOk)
  \/ \E c \in Conns : Disconnect(c)
  \/ \E sid \in Sessions :
       InFlight = {} /\ WebhookStart("w1", sid, "checkout.session.completed", "valid")
  \/ WebhookRead("w1")
  \/ WebhookWritten("w1")
  \/ \E p \in Procs : DbWriteStringify(p)
  \/ \E p \in Procs : DbWriteTmp(p)
  \/ \E c \in Conns, o \in OrderIds : JoinStart(c, o)
  \/ \E c \in Conns : JoinRead(c)
  \/ \E c \in Conns, o \in OrderIds : MessageStart(c, o, "hi")
  \/ \E c \in Conns : MessageRead(c)
  \/ \E c \in Conns : MessageWritten(c)

SpecChannel == InitConnecting /\ [][NextChannel]_vars

(* A server on which nobody is an admin: the store holds no user and no    *)
(* client holds a token                                                    *)
InitNoAdmin ==
  /\ Booted
  /\ user = [c \in Conns |-> NoToken]
  /\ conn = [c \in Conns |-> "connecting"]
  /\ admins = {}
  /\ stripe = TRUE /\ webhookSecret = TRUE

NextUsers ==
  \/ \E c \in Conns, email \in Emails, makeAdmin \in BOOLEAN :
       RegisterStart(c, email, makeAdmin)
  \/ \E c \in Conns : RegisterRead(c)
  \/ \E c \in Conns : RegisterHashed(c)
  \/ \E c \in Conns : RegisterWritten(c)
  \/ \E c \in Conns, email \in Emails : LoginStart(c, email)
  \/ \E c \in Conns : LoginRead(c)
  \/ \E c \in Conns, ok \in BOOLEAN : LoginCompared(c, ok)
  \/ \E c \in Conns, email \in Emails : MakeAdminStart(c, email)
  \/ \E c \in Conns : MakeAdminRead(c)
  \/ \E c \in Conns : MakeAdminWritten(c)
  \/ \E c \in Conns : DbWriteStringify(c)
  \/ \E c \in Conns : DbWriteTmp(c)

SpecUsers == InitNoAdmin /\ [][NextUsers]_vars

-----------------------------------------------------------------------------
(* Properties of the payment webhook *)

(* the orders of store d that carry payment session sid *)
SessionCount(d, sid) ==
  Cardinality({i \in 1..Len(d.orders) : d.orders[i].stripe_session_id = sid})

C1_OneOrderPerSession ==
  \A sid \in Sessions : SessionCount(DbRead(file), sid) <= 1

(* the step in which the delivery of w replaces the file: the new file is   *)
(* the old one plus the order this delivery created                         *)
C1_AtomicInsert ==
  \A w \in Webhooks :
    (task[w].kind = "webhook" /\ task[w].pc = "rename" /\ RenameOk /\ task'[w].pc = "idle")
      => DbRead(file') = [DbRead(file) EXCEPT !.orders = Append(@, task[w].obj[1])]

(* C1: every persisted state holds at most one order per payment session,  *)
(* under any interleaving of deliveries and sends, and the webhook's       *)
(* check-then-insert is atomic with respect to every other mutation of the *)
(* store: what a creating delivery publishes is the store as it stood plus *)
(* its own order.                                                          *)
C1_UniqueAndAtomic == []C1_OneOrderPerSession /\ [][C1_AtomicInsert]_vars

(* the step in which the delivery of w is answered {received: true} *)
Delivered(w) ==
  task[w].kind = "webhook" /\ task'[w].pc = "idle" /\ resp'.kind = "received"

(* the user id a payload names: the number in its metadata, or null *)
PayloadUserId(session) ==
  IF session.user_id = "" THEN Null ELSE ToNumber(session.user_id)

C2_Delivery ==
  \A w \in Webhooks :
    Delivered(w) =>
      LET sid == task[w].sid
          session == Session(sid)
          before == DbRead(file)
          after == DbRead(file')
          o == FindBySession(after, sid)
      IN  /\ SessionCount(after, sid) = 1
          /\ o[1].status = "paid"
          /\ o[1].user_id = PayloadUserId(session)
          /\ o[1].amount_total = session.amount_total
          /\ o[1].currency = session.currency
          /\ (SessionCount(before, sid) = 1 => file' = file)

(* C2: deliveries of one payment session that each finish before the next  *)
(* begins leave exactly one order of that session, status paid, with the   *)
(* user id, the amount and the currency of the payload; a delivery that    *)
(* finds the order leaves the persisted store as it was.                   *)
C2_Redelivery == [][C2_Delivery]_vars

(* the 'order:created' events published for payment session sid *)
NotifiedCount(sid) ==
  Cardinality({i \in 1..Len(emitted) : emitted[i].order.stripe_session_id = sid})

(* C3: over any deliveries, the order-created notification of a payment    *)
(* session is published at most once.                                      *)
C3_NotifiedOnce == \A sid \in Sessions : NotifiedCount(sid) <= 1

-----------------------------------------------------------------------------
(* Properties of the authorization guard and of the rooms *)

(* the guard as the specification words it *)
Allowed(order, principal) == principal.is_admin \/ order.user_id = principal.id

(* the step in which joinOrder or message, for an order that exists, gets  *)
(* past `await db.read()`                                                  *)
C4_GuardStep ==
  \A c \in Conns :
    ( /\ task[c].pc = "read" /\ task[c].kind \in {"join", "message"}
      /\ task'[c].pc # "read"
      /\ FindOrder(DbRead(file), task[c].oid) # <<>> )
    => LET order == FindOrder(DbRead(file), task[c].oid)[1]
       IN  IF Allowed(order, user[c])
             THEN IF task[c].kind = "join"
                    THEN resp'.kind = "ok" /\ c \in rooms'[task[c].oid]
                    ELSE /\ task'[c].pc = "write_mkdir"
                         /\ Len(dbData'.messages) = Len(DbRead(file).messages) + 1
             ELSE /\ resp' = [kind |-> "error", error |-> "Not authorized",
                              to |-> c, op |-> task[c].kind]
                  /\ task'[c] = Idle
                  /\ dbData'.messages = DbRead(file).messages
                  /\ UNCHANGED <<disk, rooms, inbox, acked>>

(* C4: on an existing order the guard lets a principal through exactly     *)
(* when it is an admin or the order's owner; anyone else is answered       *)
(* {error: 'Not authorized'}, joins no room, persists no message and has   *)
(* nothing delivered.                                                      *)
C4_Guard == [][C4_GuardStep]_vars

(* a send has just been refused with 'Not authorized' *)
C4_SendRefused ==
  resp.op = "message" /\ resp.kind = "error" /\ resp.error = "Not authorized"

(* what a response says, without its addressee *)
Decision(r) == [x \in DOMAIN r \ {"to", "op"} |-> r[x]]

C5_SameOnEveryStore ==
  \A principal \in Principals, orderId \in 0..NoSuchOrder :
    HttpResult(DbRead(file), principal, orderId)
      = JoinResult(DbRead(file), principal, orderId)

(* the answer one path sends is the answer of the other path on that store *)
C5_SameAnswer ==
  \A c \in Conns :
    (task[c].pc = "read" /\ task'[c].pc = "idle")
      => /\ task[c].kind = "http"
              => Decision(resp') = JoinResult(DbRead(file), user[c], task[c].oid)
         /\ task[c].kind = "join"
              => Decision(resp') = HttpResult(DbRead(file), user[c], task[c].oid)

(* C5: for one principal and one order, the history fetch over HTTP and    *)
(* joinOrder reach the same decision (allow, deny, not found) and, on      *)
(* allow, return the same ordered list of messages.                        *)
C5_Symmetry == []C5_SameOnEveryStore /\ [][C5_SameAnswer]_vars

(* a history fetch over HTTP has just returned a non-empty history *)
C5_HistoryFetched ==
  resp.op = "http" /\ resp.kind = "ok" /\ resp.messages # <<>>

(* a 'message' event reaches a connection only as the next entry of its    *)
(* inbox, and only if the connection is in the room of the message's order *)
C6_Delivery ==
  \A c \in Conns :
    inbox'[c] # inbox[c]
      => /\ Len(inbox'[c]) = Len(inbox[c]) + 1
         /\ SubSeq(inbox'[c], 1, Len(inbox[c])) = inbox[c]
         /\ c \in rooms[inbox'[c][Len(inbox'[c])].order_id]

(* C6: a message sent to an order is delivered only to the connections     *)
(* that are members of that order's room.                                  *)
C6_Isolation == [][C6_Delivery]_vars

(* a send has just been delivered to the room of its order while a         *)
(* connection that is in another order's room only received nothing        *)
C6_OtherRoomSilent ==
  /\ resp.op = "message" /\ resp.kind = "ok"
  /\ \E c \in Conns : resp.msg \in Range(inbox[c])
  /\ \E c \in Conns, other \in DOMAIN rooms :
       /\ other # resp.msg.order_id
       /\ c \in rooms[other]
       /\ c \notin rooms[resp.msg.order_id]
       /\ inbox[c] = <<>>

-----------------------------------------------------------------------------
(* Properties of the chat *)

(* a text that is empty or whitespace only *)
Blank(text) == text = "" \/ text = " "

(* C7: a send whose text is empty or whitespace only is rejected and       *)
(* persists nothing: every persisted message has a non-empty text.         *)
C7_NoBlankPersisted ==
  \A m \in Range(DbRead(file).messages) : ~Blank(m.text)

(* position of message m in the sequence s that holds it *)
Pos(s, m) == CHOOSE i \in 1..Len(s) : s[i] = m

(* C8: of two messages of an order, the one persisted first is received    *)
(* first by every member of the room, also when the two writes overlap.    *)
C8_ReceivedInPersistedOrder ==
  LET persisted == DbRead(file).messages
  IN  \A c \in Conns :
        \A i, j \in 1..Len(inbox[c]) :
          ( /\ i < j
            /\ inbox[c][i].order_id = inbox[c][j].order_id
            /\ inbox[c][i] \in Range(persisted)
            /\ inbox[c][j] \in Range(persisted) )
          => Pos(persisted, inbox[c][i]) < Pos(persisted, inbox[c][j])

(* the step in which joinOrder acknowledges with the history *)
C9_JoinStep ==
  \A c \in Conns :
    (task[c].kind = "join" /\ task[c].pc = "read" /\ task'[c].pc = "idle"
       /\ resp'.kind = "ok")
    => LET sent == {m \in task[c].seen : m.order_id = task[c].oid}
           h == resp'.messages
       IN  /\ \A m \in sent : Cardinality({i \in 1..Len(h) : h[i] = m}) = 1
           /\ \A i, j \in 1..Len(h) : i < j => h[i].created_at <= h[j].created_at
           /\ (\A p \in Conns : task[p].kind # "message") => Range(h) \subseteq acked

(* C9: a connection that joins after sends to the order were acknowledged  *)
(* receives in the join acknowledgment exactly those messages, each once,  *)
(* in creation order.                                                      *)
C9_LateJoinerHistory == [][C9_JoinStep]_vars

(* C10: once the sends of two connections to an order have completed, both *)
(* acknowledged messages are in the persisted store: neither write loses   *)
(* the other's message.                                                    *)
C10_NoLostUpdate ==
  (\A c \in Conns : task[c].kind # "message")
    => \A m1, m2 \in acked :
         (m1.sender_id # m2.sender_id /\ m1.order_id = m2.order_id)
           => {m1, m2} \subseteq Range(DbRead(file).messages)

-----------------------------------------------------------------------------
(* Properties of the store *)

(* the step in which the db.read() of some handler returns or throws *)
C11_ReadStep ==
  \A p \in Procs :
    (task[p].pc = "read" /\ task'[p].pc # "read")
      => /\ ~ReadThrows(file)
         /\ dbData'.orders = DbRead(file).orders \/ task'[p].pc = "write_mkdir"

(* C11: a read of the store never observes a partially written snapshot:  *)
(* it returns the complete content of a completed write, also when two     *)
(* writes that stage to the one side file are in flight together.          *)
C11_AtomicPublish == [][C11_ReadStep]_vars

-----------------------------------------------------------------------------
(* Properties of the webhook's verification and event filter *)

(* the step answers a delivery to POST /webhook *)
WebhookReplied == resp'.kind # "none" /\ resp'.op = "webhook"

(* the store, the counters, the notifications and what the clients hold *)
serverState == <<disk, dbData, ids, sockets, seenByClients, emitted>>

C12_RejectStep ==
  /\ \A w \in Webhooks :
       (webhookSecret /\ task[w].pc = "idle" /\ task'[w].pc # "idle")
         => task'[w].sig = "valid"
  /\ (WebhookReplied /\ webhookSecret /\ resp'.sig # "valid")
       => /\ resp'.kind = "rejected"
          /\ resp'.status \in 400..499
          /\ UNCHANGED <<serverState, task>>

(* C12: a delivery whose signature does not verify against the configured  *)
(* secret (a wrong signature, or no signature header) is answered with a   *)
(* 4xx error, never starts the order-creating part of the handler, and     *)
(* changes nothing: store, db.data, ids and notifications are as before.   *)
C12_BadSignatureRejected == [][C12_RejectStep]_vars

(* a delivery with a wrong signature was just rejected by the verification, *)
(* while the store already holds an order                                   *)
C12_SignatureRefused ==
  /\ resp.kind = "rejected" /\ resp.op = "webhook"
  /\ resp.sig = "invalid" /\ resp.error = "Webhook Error"
  /\ Creates(resp.event)
  /\ DbRead(file).orders # <<>>

(* C13: every delivery that passes the verification is answered with the   *)
(* acknowledgment {received: true}, whether it created the order, found it *)
(* present or carried an event of another kind; its handler never ends     *)
(* with an error or without an answer.                                     *)
C13_VerifiedAcknowledged ==
  (resp.kind # "none" /\ resp.op = "webhook" /\ stripe /\ Verified(resp.sig))
    => resp.kind = "received"

(* the two event kinds that report a paid checkout *)
CheckoutPaid == {"checkout.session.completed", "checkout.session.async_payment_succeeded"}

C14_IgnoreStep ==
  /\ \A w \in Webhooks :
       (task[w].pc = "idle" /\ task'[w].pc # "idle") => task'[w].type \in CheckoutPaid
  /\ (WebhookReplied /\ stripe /\ Verified(resp'.sig) /\ resp'.event \notin CheckoutPaid)
       => /\ resp'.kind = "received"
          /\ UNCHANGED <<serverState, task>>

(* C14: a verified event that is neither checkout.session.completed nor    *)
(* checkout.session.async_payment_succeeded is acknowledged and has no     *)
(* effect: it never enters the order-creating part of the handler, and the *)
(* persisted store (orders and messages), db.data, the ids and the admin   *)
(* notifications are as they were.                                         *)
C14_OtherKindsIgnored == [][C14_IgnoreStep]_vars

(* a verified event of another kind was just acknowledged, while another   *)
(* delivery is creating an order                                           *)
C14_OtherKindAcknowledged ==
  /\ resp.kind = "received" /\ resp.op = "webhook"
  /\ resp.event \notin CheckoutPaid
  /\ stripe /\ Verified(resp.sig)
  /\ \E w \in Webhooks : task[w].pc = "rename"

-----------------------------------------------------------------------------
(* Properties of the delivery of a send *)

(* the step acknowledges a send with {ok: true, msg} *)
SendAcked == resp'.kind = "ok" /\ resp'.op = "message"

C15_DeliveryStep ==
  SendAcked
    => /\ \A r \in rooms[resp'.msg.order_id] : inbox'[r] = Append(inbox[r], resp'.msg)
       /\ inbox'[resp'.to] = Append(inbox[resp'.to], resp'.msg)

(* C15: a successful send to order O delivers the message to every         *)
(* connection that is in room O at that moment, and the sending connection *)
(* is one of those that receive it as a room event.                        *)
C15_DeliveredToRoomAndSender == [][C15_DeliveryStep]_vars

(* C16: persist before deliver: at the moment a message is emitted to its  *)
(* room and acknowledged {ok: true, msg}, the persisted store holds it.    *)
C16_PersistedWhenDelivered ==
  (resp.kind = "ok" /\ resp.op = "message")
    => /\ ~ReadThrows(file)
       /\ resp.msg \in Range(DbRead(file).messages)

-----------------------------------------------------------------------------
(* Properties of joinOrder *)

(* how often message m occurs in sequence s *)
Occurrences(s, m) == Cardinality({i \in 1..Len(s) : s[i] = m})

(* how often connection c has seen m: in the history its join returned or  *)
(* as a live 'message' event                                               *)
Seen(c, m) == Occurrences(history[c].messages, m) + Occurrences(inbox[c], m)

(* C17: for a connection whose join of order O was approved, every message *)
(* persisted for O is seen exactly once, in the returned history or as a   *)
(* live delivery: never twice, and, once the handlers in flight have       *)
(* ended, never not at all.                                                *)
C17_JoinGapAndDuplicateFree ==
  \A c \in Conns :
    history[c] # NoHistory
      => \A m \in Range(DbRead(file).messages) :
           m.order_id = history[c].order_id
             => /\ Seen(c, m) <= 1
                /\ InFlight = {} => Seen(c, m) = 1

(* the step answers a joinOrder of connection c *)
JoinReplied(c) == resp'.kind # "none" /\ resp'.op = "join" /\ resp'.to = c

C18_JoinStep ==
  \A c \in Conns :
    (JoinReplied(c) /\ conn[c] = "authenticated")
      => LET order == FindOrder(DbRead(file), task[c].oid)
         IN  /\ conn'[c] = "authenticated"
             /\ IF order # <<>> /\ Allowed(order[1], user[c])
                  THEN /\ resp'.kind = "ok"
                       /\ c \in rooms'[task[c].oid]
                  ELSE /\ resp'.kind = "error"
                       /\ resp'.error = IF order = <<>> THEN "Order not found"
                                                         ELSE "Not authorized"
                       /\ UNCHANGED <<conn, rooms, admins>>

(* C18: a joinOrder that is denied, or names no order, is answered with an *)
(* error and leaves the connection authenticated, in no new room and in    *)
(* every room it was in; and every joinOrder of an authenticated           *)
(* connection for an order it is entitled to -- so also one that follows   *)
(* a refusal -- is approved and puts it in that order's room.              *)
C18_RefusedJoinKeepsConnection == [][C18_JoinStep]_vars

(* a connection that is in the room of its own order was just refused the  *)
(* room of another user's order                                            *)
C18_RefusedWhileMember ==
  /\ resp.kind = "error" /\ resp.op = "join" /\ resp.error = "Not authorized"
  /\ conn[resp.to] = "authenticated"
  /\ \E o \in DOMAIN rooms : resp.to \in rooms[o]

(* every member of a room is a live connection of the owner or of staff *)
C19_Members ==
  \A o \in DOMAIN rooms : \A c \in rooms[o] :
    /\ conn[c] = "authenticated"
    /\ LET order == FindOrder(DbRead(file), o)
       IN  order # <<>> /\ Allowed(order[1], user[c])

(* a connection enters a room only in the step that approves its joinOrder *)
(* of that order                                                           *)
C19_EntryStep ==
  \A o \in DOMAIN rooms : \A c \in Conns :
    (c \notin rooms[o] /\ c \in rooms'[o])
      => JoinReplied(c) /\ resp'.kind = "ok" /\ task[c].oid = o

-----------------------------------------------------------------------------
(* Properties of the sender's identity *)

(* the role of a principal, as the specification words it *)
RoleOf(principal) == IF principal.is_admin THEN "admin" ELSE "user"

(* C20: every persisted message carries the identity of the connection     *)
(* that sent it: sender_id is the id of that connection's principal and    *)
(* sender_role is admin iff that principal is staff, whatever sender_id    *)
(* and sender_role the payload carried.  (The text of a message names the  *)
(* connection that sent it.)                                               *)
C20_VerifiedSender ==
  \A m \in Range(DbRead(file).messages) :
    m.text \in Conns
      => m.sender_id = user[m.text].id /\ m.sender_role = RoleOf(user[m.text])

(* the store holds a message of a connection whose payload named another   *)
(* principal as sender and a role that is not its own                      *)
C20_SpoofPersisted ==
  \E c \in Conns :
    /\ task[c].kind = "message" /\ task[c].obj # <<>>
    /\ task[c].from # Null /\ task[c].from # user[c].id
    /\ task[c].role # "" /\ task[c].role # RoleOf(user[c])
    /\ task[c].obj[1] \in Range(DbRead(file).messages)

-----------------------------------------------------------------------------
(* Properties of the persisted records *)

(* sequence s is an initial part of sequence t *)
IsPrefix(s, t) == Len(s) <= Len(t) /\ \A i \in 1..Len(s) : s[i] = t[i]

(* C21: messages are append-only: whenever the persisted snapshot is       *)
(* replaced, the messages it held are, unchanged and in their order, the   *)
(* initial part of the messages of the new snapshot.                       *)
C21_MessagesAppendOnly ==
  [][IsPrefix(DbRead(file).messages, DbRead(file').messages)]_vars

(* C22: orders are durable and immutable: whenever the persisted snapshot  *)
(* is replaced, every order it held is in the new snapshot with status     *)
(* paid and every other field as it was.                                   *)
C22_OrdersDurable ==
  [][\A o \in Range(DbRead(file).orders) :
       o.status = "paid" /\ o \in Range(DbRead(file').orders)]_vars

-----------------------------------------------------------------------------
(* Properties of the connections and of room 'admins' *)

(* room 'admins' holds exactly the live connections of staff *)
C23_StaffOnly ==
  admins = {c \in Conns : conn[c] = "authenticated" /\ user[c].is_admin}

(* an 'order:created' event is published only by the step that ends a      *)
(* delivery to POST /webhook, and it goes to the members of room 'admins'   *)
C23_PublishStep ==
  emitted' # emitted
    => /\ resp'.kind # "none" /\ resp'.op = "webhook"
       /\ Len(emitted') = Len(emitted) + 1
       /\ emitted'[Len(emitted')].to = admins

(* C23: every connection of an admin is in room 'admins' from the end of   *)
(* its handshake until it closes, no other connection ever is, and no      *)
(* joinOrder or message of a client publishes into that room: only the     *)
(* webhook does.                                                           *)
C23_AdminChannel == []C23_StaffOnly /\ [][C23_PublishStep]_vars

(* an order was just announced to the admin while the other client, who    *)
(* is no admin, is connected too and a send is under way                   *)
C23_AnnouncedToStaff ==
  /\ emitted # <<>> /\ emitted[Len(emitted)].to = {"a"}
  /\ resp.kind = "received" /\ resp.op = "webhook"
  /\ conn["u"] = "authenticated"
  /\ \E c \in Conns : task[c].kind = "message"

(* a closed connection is in no room *)
C24_ClosedInNoRoom ==
  \A c \in Conns :
    conn[c] = "closed" => c \notin admins /\ \A o \in DOMAIN rooms : c \notin rooms[o]

C24_ClosedStep ==
  \A c \in Conns :
    /\ conn[c] = "closed" => conn'[c] = "closed" /\ inbox'[c] = inbox[c]
    /\ (conn[c] # "closed" /\ conn'[c] = "closed") => file' = file

-----------------------------------------------------------------------------
(* Properties of the handlers when the store fails *)

(* the db.read() or the db.write() of p's handler fails in this step, and  *)
(* the handler ends                                                        *)
StoreFails(p) ==
  /\ task'[p].pc = "idle"
  /\ \/ task[p].pc = "read" /\ ReadThrows(file)
     \/ task[p].pc = "rename" /\ ~RenameOk

C25_FailureStep ==
  \A p \in Procs :
    (StoreFails(p) /\ task[p].kind \in {"webhook", "join", "message"})
      => /\ resp'.kind = "error" /\ resp'.to = p
         /\ file' = file

(* C25: when the store fails under a webhook delivery, a joinOrder or a    *)
(* send, the caller gets an error response and the persisted snapshot is   *)
(* as it was; the failure is not left unhandled.                           *)
C25_FailureContained == [][C25_FailureStep]_vars

-----------------------------------------------------------------------------
(* Properties of the webhook without a signing secret *)

C26_DegradedStep ==
  \A w \in Webhooks :
    /\ (webhookSecret /\ task[w].pc = "idle" /\ task'[w].pc # "idle")
         => task'[w].sig = "valid"
    /\ (stripe /\ ~webhookSecret /\ WebhookReplied /\ resp'.to = w)
         => resp'.kind = "received"
    /\ (stripe /\ ~webhookSecret /\ task[w].kind = "webhook" /\ task'[w].pc = "idle")
         => LET found == FindBySession(DbRead(file'), task[w].sid)
            IN  found # <<>> /\ found[1].status = "paid"

(* C26: without a webhook secret (and with the Stripe client configured)   *)
(* a payload is taken as it is, signed or not: a payment-completion event  *)
(* ends acknowledged {received: true} with the paid order of its session   *)
(* in the persisted store; with a secret, no delivery without the          *)
(* payload's signature gets as far as creating an order.                   *)
C26_DegradedMode == [][C26_DegradedStep]_vars

-----------------------------------------------------------------------------
(* Properties of the accounts *)

(* C27: admin status is granted by an existing admin only: on a server     *)
(* where nobody is an admin, no registration, login or make-admin request  *)
(* leaves a stored user with is_admin set or hands out a token that        *)
(* passes as staff.                                                        *)
C27_NoSelfMadeAdmin ==
  /\ \A u \in Range(DbRead(file).users) : u.is_admin = 0
  /\ \A c \in Conns : ~user[c].is_admin

====
